---- MODULE Spec2Model ----
(***************************************************************************)
(* FGA (fast gradient attack) of deeprobust/graph/targeted_attack/fga.py.  *)
(* One FGA instance: its construction, and calls of FGA.attack, one loop   *)
(* iteration per step.  The surrogate model is an oracle for the gradient  *)
(* of the loss with respect to adj_changes.                                *)
(***************************************************************************)
EXTENDS Integers, Sequences, FiniteSets

N == 4
MaxPert == 2

Nodes == 0 .. (N - 1)
Budgets == 0 .. MaxPert

\* values a gradient entry takes in the model
GradVals == {-3, 5}

\* the stubbed gradient of the worked example: [0, 5, -3, 1]
RingGrad == [c \in Nodes |-> CASE c = 0 -> 0 [] c = 1 -> 5 [] c = 2 -> -3
                                  [] c = 3 -> 1 [] OTHER -> 0]

ZeroGrad == [c \in Nodes |-> 0]

\* the gradient vectors of the model
GradientVectors == [Nodes -> GradVals] \cup {RingGrad, ZeroGrad}

\* the 4-node ring 0-1, 1-2, 2-3, 3-0 (dense)
RingEdge(u, v) == \/ (u = 0 /\ v = 1) \/ (u = 1 /\ v = 2)
                  \/ (u = 2 /\ v = 3) \/ (u = 3 /\ v = 0)
RingDense == [u \in Nodes |-> [v \in Nodes |->
                 IF RingEdge(u, v) \/ RingEdge(v, u) THEN 1 ELSE 0]]

VARIABLES
  pc,                \* where the instance / the running call is
  surrogate,         \* the model handed to the constructor
  attack_structure,  \* self.attack_structure
  attack_features,   \* self.attack_features
  adj_changes,       \* self.adj_changes: <<>> when the attribute is absent
  self_modified_adj, \* self.modified_adj: <<>> when None, else <<csr matrix>>
  ori_adj,           \* argument ori_adj (csr matrix)
  target_node,       \* argument target_node
  n_perturbations,   \* argument n_perturbations
  idx_train,         \* argument idx_train
  modified_adj,      \* local modified_adj (dense)
  i,                 \* loop variable: iterations completed
  picks,             \* history: grad_argmax of every iteration of this call
  feature_steps,     \* history: executions of the feature branch (line 115)
  calls,             \* history: attack calls started on the instance
  before,            \* history: self.modified_adj when this call started
  prev_adj,          \* history: final local modified_adj of the previous call
  prev_n,            \* history: n_perturbations of the previous call
  prev_pc            \* history: how the previous call ended

vars == <<pc, surrogate, attack_structure, attack_features, adj_changes,
          self_modified_adj, ori_adj, target_node, n_perturbations, idx_train,
          modified_adj, i, picks, feature_steps, calls, before, prev_adj,
          prev_n, prev_pc>>

----------------------------------------------------------------------------
\* Matrices

ZeroDense == [u \in Nodes |-> [v \in Nodes |-> 0]]

\* scipy csr_matrix of a dense array: the nonzero entries
csr_matrix(A) == {<<u, v, A[u][v]>> : u \in Nodes, v \in Nodes}
                 \ {<<u, v, 0>> : u \in Nodes, v \in Nodes}

\* csr.todense(): every cell not stored is 0
Entry(S, u, v) == IF \E e \in S : e[1] = u /\ e[2] = v
                  THEN (CHOOSE e \in S : e[1] = u /\ e[2] = v)[3]
                  ELSE 0
todense(S) == [u \in Nodes |-> [v \in Nodes |-> Entry(S, u, v)]]

\* the input graphs (symmetric, 0/1, zero diagonal): every graph whose edges
\* all share one node, which gives a target every possible row, and the ring
Pairs == {p \in Nodes \X Nodes : p[1] < p[2]}
GraphOf(E) == [u \in Nodes |-> [v \in Nodes |->
                 IF <<u, v>> \in E \/ <<v, u>> \in E THEN 1 ELSE 0]]
Stars == {E \in SUBSET Pairs : \E c \in Nodes : \A p \in E : c \in {p[1], p[2]}}
InputGraphs == {csr_matrix(GraphOf(E)) : E \in Stars}
               \cup {csr_matrix(RingDense)}

\* BaseAttack.check_adj: symmetric, entries 0/1, no self loop
check_adj(S) ==
  /\ \A e \in S : e[3] \in {0, 1}
  /\ \A e \in S : Entry(S, e[2], e[1]) = e[3]
  /\ \A e \in S : e[1] # e[2]

----------------------------------------------------------------------------
\* The surrogate's gradient

Arbitrary == [det |-> FALSE, w |-> ZeroGrad]
Stubs == {[det |-> TRUE, w |-> g] : g \in GradientVectors}

\* torch.autograd.grad(loss, self.adj_changes): the vectors the surrogate can
\* return for the perturbed adjacency A
Gradients(s, A) == IF s.det THEN {s.w} ELSE GradientVectors

----------------------------------------------------------------------------
\* One loop iteration

\* modified_row = modified_adj[target_node] + self.adj_changes
ModifiedRow(A, t, ac) == [c \in Nodes |-> A[t][c] + ac[c]]

\* grad = grad * (-2*modified_row + 1); grad[target_node] = 0
Score(grad, row, t) ==
  [c \in Nodes |-> IF c = t THEN 0 ELSE grad[c] * (-2 * row[c] + 1)]

ArgMin(f) == CHOOSE c \in Nodes :
  /\ \A d \in Nodes : f[d] >= f[c]
  /\ \A d \in Nodes : d < c => f[d] > f[c]

\* torch.argmax: the first index of the maximal value
ArgMax(f) == CHOOSE c \in Nodes :
  /\ \A d \in Nodes : f[d] <= f[c]
  /\ \A d \in Nodes : d < c => f[d] < f[c]

NegatedValue(row, b) == 2 * row[b] - 1

\* value = -2*modified_row[grad_argmax] + 1
Value(row, b) == -2 * row[b] + 1

AddCell(A, u, v, x) == [A EXCEPT ![u][v] = @ + x]

FlipOneSided(A, t, b, x) == AddCell(A, t, b, x)

\* modified_adj.data[target_node][grad_argmax] += value
\* modified_adj.data[grad_argmax][target_node] += value
Flip(A, t, b, x) == AddCell(AddCell(A, t, b, x), b, t, x)

StopsOneEarly(k, n) == k + 1 >= n

\* for i in range(n_perturbations): the range is exhausted
RangeExhausted(k, n) == k >= n

ResumeFromStored(S, stored) ==
  IF stored = <<>> THEN todense(S) ELSE todense(stored[1])

\* modified_adj = ori_adj.todense()
WorkingCopy(S, stored) == todense(S)

AssertAlwaysPasses(af) == TRUE

\* assert not self.attack_features
AssertNoFeatures(af) == ~af

----------------------------------------------------------------------------
Init ==
  /\ pc = "new"
  /\ surrogate = Arbitrary
  /\ attack_structure = FALSE
  /\ attack_features = FALSE
  /\ adj_changes = <<>>
  /\ self_modified_adj = <<>>
  /\ ori_adj = {}
  /\ target_node = 0
  /\ n_perturbations = 0
  /\ idx_train = {}
  /\ modified_adj = ZeroDense
  /\ i = 0
  /\ picks = <<>>
  /\ feature_steps = 0
  /\ calls = 0
  /\ before = <<>>
  /\ prev_adj = ZeroDense
  /\ prev_n = 0
  /\ prev_pc = "new"

InitDet ==
  /\ pc = "new"
  /\ surrogate \in Stubs
  /\ attack_structure = FALSE
  /\ attack_features = FALSE
  /\ adj_changes = <<>>
  /\ self_modified_adj = <<>>
  /\ ori_adj = {}
  /\ target_node = 0
  /\ n_perturbations = 0
  /\ idx_train = {}
  /\ modified_adj = ZeroDense
  /\ i = 0
  /\ picks = <<>>
  /\ feature_steps = 0
  /\ calls = 0
  /\ before = <<>>
  /\ prev_adj = ZeroDense
  /\ prev_n = 0
  /\ prev_pc = "new"

\* FGA.__init__; feature_shape (absent or given) is read only after the assert
Construct ==
  /\ pc = "new"
  /\ \E structure \in BOOLEAN, features \in BOOLEAN, feature_shape \in {0, 1} :
       /\ attack_structure' = structure
       /\ attack_features' = features
       /\ adj_changes' = IF structure THEN <<[c \in Nodes |-> 0]>> ELSE <<>>
       /\ pc' = IF AssertNoFeatures(features) THEN "idle" ELSE "ctor_error"
  /\ UNCHANGED <<surrogate, self_modified_adj, ori_adj, target_node,
                 n_perturbations, idx_train, modified_adj, i, picks,
                 feature_steps, calls, before, prev_adj, prev_n, prev_pc>>

\* FGA.attack, up to the loop: the first call on the instance, with idx_train
\* one of idxs
Begin(idxs) ==
  /\ pc = "idle"
  /\ \E S \in InputGraphs, t \in Nodes, n \in Budgets, idx \in idxs :
       /\ ori_adj' = S
       /\ target_node' = t
       /\ n_perturbations' = n
       /\ idx_train' = idx
       /\ modified_adj' = WorkingCopy(S, self_modified_adj)
  /\ i' = 0
  /\ picks' = <<>>
  /\ calls' = calls + 1
  /\ before' = self_modified_adj
  /\ pc' = "loop"
  /\ UNCHANGED <<surrogate, attack_structure, attack_features, adj_changes,
                 self_modified_adj, feature_steps, prev_adj, prev_n, prev_pc>>

\* the first call, with an empty or a non-empty training set
AttackBegin == Begin({{}, {0}})

\* the first call, with a non-empty training set
AttackTrained == Begin({{0}})

\* FGA.attack, up to the loop: the second call on the same instance, with the
\* same graph, target and training indices and any budget
ReAttack ==
  /\ pc \in {"done", "check_failed", "attr_error"}
  /\ calls = 1
  /\ \E n \in Budgets : n_perturbations' = n
  /\ modified_adj' = WorkingCopy(ori_adj, self_modified_adj)
  /\ i' = 0
  /\ picks' = <<>>
  /\ calls' = calls + 1
  /\ before' = self_modified_adj
  /\ prev_adj' = modified_adj
  /\ prev_n' = n_perturbations
  /\ prev_pc' = pc
  /\ pc' = "loop"
  /\ UNCHANGED <<surrogate, attack_structure, attack_features, adj_changes,
                 self_modified_adj, ori_adj, target_node, idx_train,
                 feature_steps>>

\* the first iteration on an instance built with attack_structure = false:
\* line 97 reads self.adj_changes, which __init__ creates only under
\* attack_structure (and line 110 reads grad_argmax, which only the branch of
\* line 101 assigns), so the call raises before any flip
RaiseAttributeError ==
  /\ pc = "loop"
  /\ ~RangeExhausted(i, n_perturbations)
  /\ adj_changes = <<>>
  /\ pc' = "attr_error"
  /\ UNCHANGED <<surrogate, attack_structure, attack_features, adj_changes,
                 self_modified_adj, ori_adj, target_node, n_perturbations,
                 idx_train, modified_adj, i, picks, feature_steps, calls,
                 before, prev_adj, prev_n, prev_pc>>

\* one iteration of the loop
Iterate ==
  /\ pc = "loop"
  /\ ~RangeExhausted(i, n_perturbations)
  /\ adj_changes # <<>>
  /\ LET row == ModifiedRow(modified_adj, target_node, adj_changes[1])
         A1  == [modified_adj EXCEPT ![target_node] = row]
     IN \E grad \in Gradients(surrogate, A1) :
          LET grad_argmax == ArgMax(Score(grad, row, target_node))
              value == Value(row, grad_argmax)
          IN /\ modified_adj' = Flip(A1, target_node, grad_argmax, value)
             /\ picks' = Append(picks, grad_argmax)
  /\ i' = i + 1
  /\ feature_steps' = IF attack_features THEN feature_steps + 1
                      ELSE feature_steps
  /\ UNCHANGED <<pc, surrogate, attack_structure, attack_features, adj_changes,
                 self_modified_adj, ori_adj, target_node, n_perturbations,
                 idx_train, calls, before, prev_adj, prev_n, prev_pc>>

FinishStoreFirst ==
  /\ pc = "loop"
  /\ RangeExhausted(i, n_perturbations)
  /\ self_modified_adj' = <<csr_matrix(modified_adj)>>
  /\ pc' = IF check_adj(csr_matrix(modified_adj)) THEN "done"
           ELSE "check_failed"
  /\ UNCHANGED <<surrogate, attack_structure, attack_features, adj_changes,
                 ori_adj, target_node, n_perturbations, idx_train,
                 modified_adj, i, picks, feature_steps, calls, before,
                 prev_adj, prev_n, prev_pc>>

\* after the loop: convert, check_adj, store
Finish ==
  /\ pc = "loop"
  /\ RangeExhausted(i, n_perturbations)
  /\ IF check_adj(csr_matrix(modified_adj))
     THEN /\ self_modified_adj' = <<csr_matrix(modified_adj)>>
          /\ pc' = "done"
     ELSE /\ self_modified_adj' = self_modified_adj
          /\ pc' = "check_failed"
  /\ UNCHANGED <<surrogate, attack_structure, attack_features, adj_changes,
                 ori_adj, target_node, n_perturbations, idx_train,
                 modified_adj, i, picks, feature_steps, calls, before,
                 prev_adj, prev_n, prev_pc>>

Next ==
  \/ Construct
  \/ AttackBegin
  \/ RaiseAttributeError
  \/ Iterate
  \/ Finish

NextDet ==
  \/ Construct
  \/ AttackTrained
  \/ RaiseAttributeError
  \/ Iterate
  \/ Finish
  \/ ReAttack

Spec == Init /\ [][Next]_vars

SpecDet == InitDet /\ [][NextDet]_vars

----------------------------------------------------------------------------
\* Vocabulary of the properties

Ori == todense(ori_adj)

InCall == pc \in {"loop", "done", "check_failed", "attr_error"}

\* the loop has run to its end
LoopOver == (pc = "loop" /\ i = n_perturbations)
            \/ pc \in {"done", "check_failed"}

Ended == pc \in {"done", "check_failed", "attr_error"}

Symmetric(A) == \A u \in Nodes, v \in Nodes : A[u][v] = A[v][u]

DiffCells == {p \in Nodes \X Nodes : modified_adj[p[1]][p[2]] # Ori[p[1]][p[2]]}

Times(c) == Cardinality({k \in 1 .. Len(picks) : picks[k] = c})

PicksDistinct == \A c \in Nodes : Times(c) <= 1

Even(k) == k % 2 = 0

RingCase ==
  /\ pc \in {"done", "check_failed"}
  /\ calls = 1
  /\ attack_structure
  /\ target_node = 0
  /\ n_perturbations = 1
  /\ surrogate.w = RingGrad
  /\ ori_adj = csr_matrix(RingDense)

----------------------------------------------------------------------------
\* C1: the working adjacency of attack is symmetric after every iteration,
\* and so are the final matrix and the matrix stored in self.modified_adj.
C1_SymmetryPreserved ==
  /\ InCall => Symmetric(modified_adj)
  /\ self_modified_adj # <<>> =>
        \A e \in self_modified_adj[1] :
           <<e[2], e[1], e[3]>> \in self_modified_adj[1]

\* C1: a call that flipped two different columns, neither the target, ended
C1_Witness ==
  /\ pc = "done"
  /\ Len(picks) = 2
  /\ picks[1] # picks[2]
  /\ Times(target_node) = 0

\* C2: no iteration selects the target's own column, and the diagonal cell
\* (target, target) keeps its input value.
C2_TargetNeverSelected ==
  InCall => /\ Times(target_node) = 0
            /\ modified_adj[target_node][target_node]
                 = Ori[target_node][target_node]

C4_DiffCount ==
  LoopOver => IF PicksDistinct
              THEN Cardinality(DiffCells) = 2 * n_perturbations
              ELSE Cardinality(DiffCells) < 2 * n_perturbations

C6_Deterministic ==
  (Ended /\ calls >= 2 /\ n_perturbations = prev_n) =>
     /\ modified_adj = prev_adj
     /\ pc = prev_pc
     /\ self_modified_adj = before
     /\ pc = "done" => self_modified_adj = <<csr_matrix(prev_adj)>>

\* C6: a second call with the same arguments stored a perturbed graph
C6_Witness ==
  /\ pc = "done"
  /\ calls = 2
  /\ n_perturbations = prev_n
  /\ Len(picks) = 2
  /\ self_modified_adj # <<ori_adj>>

\* C7: when the validation after the loop fails, self.modified_adj is what it
\* was before the call; every matrix attack stores is symmetric, 0/1-valued
\* and has a zero diagonal (its stored entries are all 1, off the diagonal,
\* and mirrored).
C7_StoreOnlyValidated ==
  /\ pc = "check_failed" => self_modified_adj = before
  /\ self_modified_adj # <<>> =>
        \A e \in self_modified_adj[1] :
           /\ e[3] = 1
           /\ e[1] # e[2]
           /\ <<e[2], e[1], 1>> \in self_modified_adj[1]

\* C7: a call failed its validation after an earlier call had stored a result
C7_Witness ==
  /\ pc = "check_failed"
  /\ before # <<>>
  /\ self_modified_adj = before

\* C8: construction with attack_features = true fails, whatever
\* attack_structure and feature_shape are; no instance that attack can be
\* called on has attack_features = true, and the feature branch never runs.
C8_FeaturesRejected ==
  /\ (pc # "new" /\ attack_features) => pc = "ctor_error"
  /\ InCall => ~attack_features
  /\ feature_steps = 0

\* C8: a construction with attack_features = true and attack_structure = true
\* has failed
C8_Witness ==
  /\ pc = "ctor_error"
  /\ attack_features
  /\ attack_structure

\* C9: with an empty idx_train and n_perturbations > 0, attack fails before
\* any gradient is computed and flips nothing.
C9_EmptyTrainRejected ==
  (InCall /\ idx_train = {} /\ n_perturbations > 0) =>
     /\ picks = <<>>
     /\ modified_adj = Ori
     /\ pc # "done"

\* C10 as stated: a column other than the target that is selected twice in
\* one call ends with its two cells outside {0, 1}.
C10_RepeatOvershoots ==
  InCall => \A c \in Nodes \ {target_node} :
              Times(c) = 2 => /\ modified_adj[target_node][c] \notin {0, 1}
                              /\ modified_adj[c][target_node] \notin {0, 1}

\* C10 amended: a second selection of the same column other than the target
\* takes its two cells back to their input value: the cells (target, c) and
\* (c, target), c # target, are always 0 or 1, and differ from the input
\* exactly when c was selected an odd number of times.
C10_RepeatRestores ==
  InCall => \A c \in Nodes \ {target_node} :
              /\ modified_adj[target_node][c] \in {0, 1}
              /\ modified_adj[c][target_node] \in {0, 1}
              /\ Even(Times(c)) <=>
                   /\ modified_adj[target_node][c] = Ori[target_node][c]
                   /\ modified_adj[c][target_node] = Ori[c][target_node]

\* C10: one call selected the same column, not the target, twice
C10_Witness ==
  /\ InCall
  /\ Len(picks) = 2
  /\ picks[1] = picks[2]
  /\ picks[1] # target_node

====
